---- MODULE Spec2Model ----
(***************************************************************************)
(* State-machine model of the storefront bot in src/bot.py: per-user cart, *)
(* checkout form, session expiry, live message handles, the day-scoped     *)
(* order counter and the order log.                                        *)
(*                                                                         *)
(* Conventions                                                             *)
(*  - a Python dict is a function whose DOMAIN is the set of keys present; *)
(*  - money is counted in thousandths of the currency unit, so that        *)
(*    Decimal.quantize(0.01, ROUND_HALF_UP) is a real rounding step;       *)
(*  - a text is a tuple of one-character strings;                          *)
(*  - a Telegram message id is positive; 0 stands for "no msg_id key".     *)
(*    send_message returns an id the bot has not stored in the slot it is  *)
(*    about to overwrite; nothing in the code compares ids of different    *)
(*    slots, so an id is modelled by a generation number 1 or 2.           *)
(*  - lastEvent records which handler ran last and what it did (messages   *)
(*    sent, outcome, amounts computed); it is an observation variable.     *)
(***************************************************************************)
EXTENDS Integers, Sequences, FiniteSets, TLC

\* ------------------------------------------------------------------ bounds
MaxQty == 4
MaxNow == 3601
MaxMint == 1
MaxLen == 3
MaxBoots == 1

\* ------------------------------------------------- configuration constants
SESSION_TIMEOUT_SECONDS == 3600
DELIVERY_FEE == 2500
FREE_DELIVERY_THRESHOLD == 10000
SecondsPerDay == 86400

catalog == [p \in {"Sticker A", "Sticker B"} |-> IF p = "Sticker A" THEN 3000 ELSE 1250]

delivery_steps == <<"name", "house", "street", "city", "postcode">>

NumSteps == Len(delivery_steps)

\* ------------------------------------------------------------ identities
Shopper == "u1"
Users == {"u1", "u2"}
BotId == "bot"

\* Items a pressed add-button can carry: the catalog and one stale item.
AddItems == DOMAIN catalog \cup {"Ghost"}

\* The add-buttons the single shopper of Spec presses.
ShopperItems == {"Sticker A", "Ghost"}

\* Delays between two events that the model distinguishes.
Delays == {SESSION_TIMEOUT_SECONDS, SESSION_TIMEOUT_SECONDS + 1}

\* ------------------------------------------------------- dict primitives
Put(d, k, v) == [x \in (DOMAIN d) \cup {k} |-> IF x = k THEN v ELSE d[x]]

Pop(d, k) == [x \in (DOMAIN d) \ {k} |-> d[x]]

Get(d, k, dflt) == IF k \in DOMAIN d THEN d[k] ELSE dflt

EmptyDict == [x \in {} |-> 0]

\* ------------------------------------------------------------------ texts
Whitespace == {" "}
Letters == {"A", "J", "S", "W", "h", "i", "m", "o", "t"}
Digits == {"1", "2"}
Hyphens == {"-"}

RECURSIVE LStrip(_)
LStrip(t) == IF t # <<>> /\ Head(t) \in Whitespace THEN LStrip(Tail(t)) ELSE t

RECURSIVE RStrip(_)
RStrip(t) ==
    IF t # <<>> /\ t[Len(t)] \in Whitespace THEN RStrip(SubSeq(t, 1, Len(t) - 1)) ELSE t

strip(t) == RStrip(LStrip(t))

\* ---------------------------------------------------------------- money
Quantize(x) == ((x + 5) \div 10) * 10

RECURSIVE SumLines(_, _)
SumLines(cart, keys) ==
    IF keys = {} THEN 0
    ELSE LET k == CHOOSE x \in keys : TRUE
         IN  (IF k \in DOMAIN catalog THEN catalog[k] * cart[k] ELSE 0)
             + SumLines(cart, keys \ {k})


\* Variant of confirm_totals that never charges delivery, as the cart text does.
confirm_totals_free_delivery(cart) ==
    LET subtotal == Quantize(SumLines(cart, DOMAIN cart))
    IN  <<subtotal, 0, Quantize(subtotal)>>

\* Lines 953-960: the amounts confirm_order computes from the cart.
confirm_totals(cart) ==
    LET subtotal == Quantize(SumLines(cart, DOMAIN cart))
        delivery == IF subtotal >= FREE_DELIVERY_THRESHOLD THEN 0 ELSE DELIVERY_FEE
        total    == Quantize(subtotal + delivery)
    IN  <<subtotal, delivery, total>>

\* Lines 379-406: what build_cart_text shows for a cart: whether it has items
\* and the total, the sum of the unit prices of the catalog items rounded
\* once; no delivery fee is added.
build_cart_text(cart) ==
    [has_items |-> DOMAIN cart # {}, total |-> Quantize(SumLines(cart, DOMAIN cart))]

RECURSIVE SumRoundedLines(_, _)
SumRoundedLines(cart, keys) ==
    IF keys = {} THEN 0
    ELSE LET k == CHOOSE x \in keys : TRUE
         IN  (IF k \in DOMAIN catalog THEN Quantize(catalog[k] * cart[k]) ELSE 0)
             + SumRoundedLines(cart, keys \ {k})

\* Lines 474-495: the amounts send_order_review computes from the cart; each
\* line total is rounded before it is added.
review_totals(cart) ==
    LET subtotal == SumRoundedLines(cart, DOMAIN cart)
        delivery == IF subtotal >= FREE_DELIVERY_THRESHOLD THEN 0 ELSE DELIVERY_FEE
        total    == Quantize(subtotal + delivery)
    IN  <<subtotal, delivery, total>>

\* ------------------------------------------------------------- validation
validate_field(field, text) ==
    LET t == strip(text)
    IN  CASE field = "name"     -> Len(t) >= 2
          [] field = "house"    -> Len(t) >= 1
          [] field = "street"   -> Len(t) >= 2
          [] field = "city"     -> Len(t) >= 2
          [] field = "postcode" -> Len(t) >= 4
          [] OTHER              -> TRUE

\* ------------------------------------------------------------------ state
VARIABLES
    user_carts,          \* user_id -> {item: qty}
    user_states,         \* user_id -> [step, data, msg_id]
    last_activity,       \* user_id -> time of last activity
    user_cart_message,   \* user_id -> <<chat_id, msg_id>>
    user_menu_messages,  \* user_id -> sequence of <<chat_id, msg_id>>
    order_counters,      \* day -> sequence number last handed out
    counter_file,        \* contents of order_counter.json
    orders,              \* rows appended to orders.csv
    MAINTENANCE,         \* maintenance flag
    stripe_enabled,      \* bool(stripe.api_key)
    now,                 \* datetime.now(), in seconds
    pc,                  \* user_id -> position of that user's confirm_order call
    minted,              \* order ids returned by generate_order_id, in order of return,
                         \* each with the run of the process that returned it
    boots,               \* number of times the process was started again
    lastEvent            \* the handler that ran last and what it did

vars == <<user_carts, user_states, last_activity, user_cart_message, user_menu_messages,
          order_counters, counter_file, orders, MAINTENANCE, stripe_enabled, now, pc,
          minted, boots, lastEvent>>

Idle == [at |-> "idle", count |-> 0, chat |-> ""]

\* sent counts the messages posted to the user's chat.  append, notify and
\* payment are set by confirm_order only: what became of the append to the
\* order log, of the admin notification and of the payment-intent creation.
\* edit is set by the handlers that present the cart: the handle an edit was
\* attempted on and the transport's answer, or NoEdit.  item is the product
\* an add-button carried.
NoEdit == [tried |-> FALSE, target |-> <<>>, ok |-> FALSE]

Event(kind, user, text, outcome, sent, amounts) ==
    [kind |-> kind, user |-> user, text |-> text, outcome |-> outcome, sent |-> sent,
     amounts |-> amounts, append |-> "none", notify |-> "none", payment |-> "none",
     edit |-> NoEdit, item |-> ""]

\* ------------------------------------------------------- session lifecycle
has_active_session(user_id) ==
    \/ user_id \in DOMAIN user_states /\ DOMAIN user_states[user_id] # {}
    \/ user_id \in DOMAIN user_carts /\ DOMAIN user_carts[user_id] # {}

\* update_activity, as a new value of last_activity
update_activity(la, user_id) == Put(la, user_id, now)

\* Variant of SessionExpired that expires a session at the timeout already.
SessionExpired_at_timeout(user_id) ==
    /\ has_active_session(user_id)
    /\ user_id \in DOMAIN last_activity
    /\ now - last_activity[user_id] >= SESSION_TIMEOUT_SECONDS

\* The condition under which check_and_handle_expiry clears the session and
\* returns True.
SessionExpired(user_id) ==
    /\ has_active_session(user_id)
    /\ user_id \in DOMAIN last_activity
    /\ now - last_activity[user_id] > SESSION_TIMEOUT_SECONDS

\* Variant of clear_session that leaves the last-activity record behind.
clear_session_keeping_activity(user_id) ==
    /\ user_carts' = Pop(user_carts, user_id)
    /\ user_states' = Pop(user_states, user_id)
    /\ last_activity' = last_activity

\* clear_session: the three per-user entries are popped; the cart message
\* handle is kept on purpose.
clear_session(user_id) ==
    /\ user_carts' = Pop(user_carts, user_id)
    /\ user_states' = Pop(user_states, user_id)
    /\ last_activity' = Pop(last_activity, user_id)

\* The whole of a handler run that finds the session expired.
check_and_handle_expiry(kind, user_id, text) ==
    /\ SessionExpired(user_id)
    /\ clear_session(user_id)
    /\ lastEvent' = Event(kind, user_id, text, "expired", 1, <<>>)
    /\ UNCHANGED <<user_cart_message, user_menu_messages, order_counters, counter_file,
                   orders, MAINTENANCE, stripe_enabled, boots, now, pc, minted>>

\* ------------------------------------------------------------ UI handles
FreshMsg(old) == IF old = 1 THEN 2 ELSE 1

\* edit_or_send on the dict of checkout states `us`: the new dict, the number
\* of messages sent and whether the call raised (KeyError on a chat id that is
\* no key of the dict).  edit_ok is the transport's answer to the edit.
edit_or_send(us, chat_id, edit_ok) ==
    LET msg_id == IF DOMAIN us # {} /\ chat_id \in DOMAIN us THEN us[chat_id].msg_id ELSE 0
        stored == [us EXCEPT ![chat_id].msg_id = FreshMsg(msg_id)]
    IN  IF msg_id # 0
        THEN IF edit_ok
             THEN [us |-> us, sent |-> 0, raised |-> FALSE]
             ELSE [us |-> stored, sent |-> 1, raised |-> FALSE]
        ELSE IF chat_id \in DOMAIN us
             THEN [us |-> stored, sent |-> 1, raised |-> FALSE]
             ELSE [us |-> us, sent |-> 2, raised |-> TRUE]

\* Variant of refresh_cart_message that keeps the stored handle when the edit
\* fails and a new message is sent.
refresh_cart_message_keeping(ucm, user_id, chat_id, edit_ok) ==
    LET existing == user_id \in DOMAIN ucm
        edit == IF existing THEN [tried |-> TRUE, target |-> ucm[user_id], ok |-> edit_ok]
                ELSE NoEdit
    IN  IF existing
        THEN [ucm |-> ucm, sent |-> IF edit_ok THEN 0 ELSE 1, edit |-> edit]
        ELSE [ucm |-> Put(ucm, user_id, <<chat_id, FreshMsg(0)>>), sent |-> 1, edit |-> edit]

\* refresh_cart_message: the new dict of cart handles, the messages sent and
\* the edit attempted.
refresh_cart_message(ucm, user_id, chat_id, edit_ok) ==
    LET existing == user_id \in DOMAIN ucm
        edit == IF existing THEN [tried |-> TRUE, target |-> ucm[user_id], ok |-> edit_ok]
                ELSE NoEdit
    IN  IF existing /\ edit_ok
        THEN [ucm |-> ucm, sent |-> 0, edit |-> edit]
        ELSE [ucm |-> Put(ucm, user_id,
                          <<chat_id, FreshMsg(IF existing THEN ucm[user_id][2] ELSE 0)>>),
              sent |-> 1, edit |-> edit]


\* mark_old_menus_outdated followed by the rest of order(): the handler of
\* /order, run for user_id in chat_id on the activity dict la.  Under
\* maintenance it only sends the maintenance notice.
order(la, user_id, chat_id) ==
    IF MAINTENANCE
    THEN [la |-> la, umm |-> user_menu_messages, sent |-> 1]
    ELSE LET entries == Get(user_menu_messages, user_id, <<>>)
             old == IF entries = <<>> THEN 0 ELSE entries[Len(entries)][2]
         IN  [la |-> update_activity(la, user_id),
              umm |-> Put(user_menu_messages, user_id, << <<chat_id, FreshMsg(old)>> >>),
              sent |-> 1]

\* ---------------------------------------------------------- cart handlers
\* Variant of increment that drops the other entries of the cart.
increment_alone(cart, item) == Put(EmptyDict, item, Get(cart, item, 0) + 1)

\* Variant of increment that stores the old quantity.
increment_missing_one(cart, item) == Put(cart, item, Get(cart, item, 0))

\* Line 689: the quantity of the item goes up by one, an absent item counting 0.
increment(cart, item) == Put(cart, item, Get(cart, item, 0) + 1)

add_to_cart(user_id, chat_id, item, edit_ok) ==
    /\ pc[user_id].at = "idle"
    /\ \/ check_and_handle_expiry("add", user_id, <<>>)
       \/ /\ ~SessionExpired(user_id)
          /\ item \notin DOMAIN catalog
          /\ lastEvent' = [Event("add", user_id, <<>>, "unknown", 0, <<>>)
                              EXCEPT !.item = item]
          /\ UNCHANGED <<user_carts, user_states, last_activity, user_cart_message,
                         user_menu_messages, order_counters, counter_file, orders,
                         MAINTENANCE, stripe_enabled, boots, now, pc, minted>>
       \/ /\ ~SessionExpired(user_id)
          /\ item \in DOMAIN catalog
          /\ LET cart == Get(user_carts, user_id, EmptyDict)
                 shown == refresh_cart_message(user_cart_message, user_id, chat_id, edit_ok)
             IN  /\ Get(cart, item, 0) < MaxQty
                 /\ last_activity' = update_activity(last_activity, user_id)
                 /\ user_carts' = Put(user_carts, user_id, increment(cart, item))
                 /\ user_cart_message' = shown.ucm
                 /\ lastEvent' = [Event("add", user_id, <<>>, "ok", shown.sent, <<>>)
                                     EXCEPT !.edit = shown.edit, !.item = item]
          /\ UNCHANGED <<user_states, user_menu_messages, order_counters, counter_file,
                         orders, MAINTENANCE, stripe_enabled, boots, now, pc, minted>>

clear_cart(user_id, chat_id, edit_ok) ==
    /\ pc[user_id].at = "idle"
    /\ \/ check_and_handle_expiry("clear_cart", user_id, <<>>)
       \/ /\ ~SessionExpired(user_id)
          /\ LET shown == refresh_cart_message(user_cart_message, user_id, chat_id, edit_ok)
             IN  /\ last_activity' = update_activity(last_activity, user_id)
                 /\ user_carts' = Put(user_carts, user_id, EmptyDict)
                 /\ user_cart_message' = shown.ucm
                 /\ lastEvent' = [Event("clear_cart", user_id, <<>>, "ok", shown.sent, <<>>)
                                     EXCEPT !.edit = shown.edit]
          /\ UNCHANGED <<user_states, user_menu_messages, order_counters, counter_file,
                         orders, MAINTENANCE, stripe_enabled, boots, now, pc, minted>>

\* Variant of begin_checkout without the empty-cart return.
begin_checkout_unguarded(user_id, chat_id, edit_ok) ==
    LET began == Put(user_states, user_id, [step |-> 0, data |-> EmptyDict, msg_id |-> 0])
        prompt == edit_or_send(began, chat_id, edit_ok)
    IN  /\ last_activity' = update_activity(last_activity, user_id)
        /\ user_states' = prompt.us
        /\ lastEvent' = Event("begin_checkout", user_id, <<>>,
                              IF prompt.raised THEN "raised" ELSE "ok", 1 + prompt.sent, <<>>)
        /\ UNCHANGED <<user_carts, user_cart_message, user_menu_messages, order_counters,
                       counter_file, orders, MAINTENANCE, stripe_enabled, boots, now, pc,
                       minted>>

\* begin_checkout, entered from handle_cart_actions after its update_activity:
\* its own expiry check then compares now with now and never fires.
begin_checkout(user_id, chat_id, edit_ok) ==
    LET cart == Get(user_carts, user_id, EmptyDict)
        began == Put(user_states, user_id, [step |-> 0, data |-> EmptyDict, msg_id |-> 0])
        prompt == edit_or_send(began, chat_id, edit_ok)
    IN  /\ last_activity' = update_activity(last_activity, user_id)
        /\ IF DOMAIN cart = {}
           THEN /\ user_states' = user_states
                /\ lastEvent' = Event("begin_checkout", user_id, <<>>, "empty_cart", 1, <<>>)
           ELSE /\ user_states' = prompt.us
                /\ lastEvent' = Event("begin_checkout", user_id, <<>>,
                                      IF prompt.raised THEN "raised" ELSE "ok",
                                      1 + prompt.sent, <<>>)
        /\ UNCHANGED <<user_carts, user_cart_message, user_menu_messages, order_counters,
                       counter_file, orders, MAINTENANCE, stripe_enabled, boots, now, pc, minted>>

\* continue_order hands the bot's own message to order(): message.from_user
\* is then the bot, not the user who pressed the button.
continue_order(user_id, chat_id) ==
    LET shown == order(update_activity(last_activity, user_id), BotId, chat_id)
    IN  /\ last_activity' = shown.la
        /\ user_menu_messages' = shown.umm
        /\ lastEvent' = Event("continue_order", user_id, <<>>, "ok", shown.sent, <<>>)
        /\ UNCHANGED <<user_carts, user_states, user_cart_message, order_counters,
                       counter_file, orders, MAINTENANCE, stripe_enabled, boots, now, pc, minted>>

handle_cart_actions(user_id, chat_id, data, edit_ok) ==
    /\ pc[user_id].at = "idle"
    /\ \/ check_and_handle_expiry(data, user_id, <<>>)
       \/ /\ ~SessionExpired(user_id)
          /\ data = "continue_order"
          /\ continue_order(user_id, chat_id)
       \/ /\ ~SessionExpired(user_id)
          /\ data = "begin_checkout"
          /\ begin_checkout(user_id, chat_id, edit_ok)


\* ------------------------------------------------------ checkout handlers
\* Variant of step_back that also drops the answer of the field returned to.
step_back_forgetting(st) ==
    [st EXCEPT !.step = st.step - 1, !.data = Pop(@, delivery_steps[st.step])]

\* Line 835: the step moves back by one; nothing else of the form is touched.
step_back(st) == [st EXCEPT !.step = st.step - 1]

\* Variant of go_back without the first-step return.
go_back_unguarded(user_id, chat_id, edit_ok) ==
    /\ pc[user_id].at = "idle"
    /\ IF user_id \notin DOMAIN user_states
       THEN /\ user_states' = user_states
            /\ lastEvent' = Event("back", user_id, <<>>, "no_state", 0, <<>>)
       ELSE LET moved == [user_states EXCEPT ![user_id] = step_back(@)]
                prompt == edit_or_send(moved, chat_id, edit_ok)
            IN  /\ user_states' = prompt.us
                /\ lastEvent' = Event("back", user_id, <<>>,
                                      IF prompt.raised THEN "raised" ELSE "ok",
                                      prompt.sent, <<>>)
    /\ UNCHANGED <<user_carts, last_activity, user_cart_message, user_menu_messages,
                   order_counters, counter_file, orders, MAINTENANCE, stripe_enabled, boots,
                   now, pc, minted>>

go_back(user_id, chat_id, edit_ok) ==
    /\ pc[user_id].at = "idle"
    /\ IF user_id \notin DOMAIN user_states
       THEN /\ user_states' = user_states
            /\ lastEvent' = Event("back", user_id, <<>>, "no_state", 0, <<>>)
       ELSE IF user_states[user_id].step = 0
       THEN /\ user_states' = user_states
            /\ lastEvent' = Event("back", user_id, <<>>, "first_step", 0, <<>>)
       ELSE LET moved == [user_states EXCEPT ![user_id] = step_back(@)]
                prompt == edit_or_send(moved, chat_id, edit_ok)
            IN  /\ user_states' = prompt.us
                /\ lastEvent' = Event("back", user_id, <<>>,
                                      IF prompt.raised THEN "raised" ELSE "ok",
                                      prompt.sent, <<>>)
    /\ UNCHANGED <<user_carts, last_activity, user_cart_message, user_menu_messages,
                   order_counters, counter_file, orders, MAINTENANCE, stripe_enabled, boots, now,
                   pc, minted>>

\* Variant of edit_address_step that empties the answers, as begin does.
edit_address_step_clearing(st) == [st EXCEPT !.step = 0, !.data = EmptyDict]

\* Line 867: the step is set to 0; the answers are not touched.
edit_address_step(st) == [st EXCEPT !.step = 0]

edit_address(user_id, chat_id, edit_ok) ==
    /\ pc[user_id].at = "idle"
    /\ \/ check_and_handle_expiry("edit_address", user_id, <<>>)
       \/ /\ ~SessionExpired(user_id)
          /\ IF user_id \notin DOMAIN user_states
             THEN /\ user_states' = user_states
                  /\ lastEvent' = Event("edit_address", user_id, <<>>, "no_state", 0, <<>>)
             ELSE LET reset == [user_states EXCEPT ![user_id] = edit_address_step(@)]
                      prompt == edit_or_send(reset, chat_id, edit_ok)
                  IN  /\ user_states' = prompt.us
                      /\ lastEvent' = Event("edit_address", user_id, <<>>,
                                            IF prompt.raised THEN "raised" ELSE "ok",
                                            prompt.sent, <<>>)
          /\ UNCHANGED <<user_carts, last_activity, user_cart_message, user_menu_messages,
                         order_counters, counter_file, orders, MAINTENANCE, stripe_enabled, boots,
                         now, pc, minted>>

\* Variant of store_answer that does not advance the step.
store_answer_in_place(st, field, text) == [st EXCEPT !.data = Put(@, field, text)]

\* Variant of store_answer that starts the answers afresh.
store_answer_alone(st, field, text) ==
    [st EXCEPT !.data = Put(EmptyDict, field, text), !.step = @ + 1]

\* Lines 900-901: the accepted text is stored under the active field and the
\* step advances.
store_answer(st, field, text) ==
    [st EXCEPT !.data = Put(@, field, text), !.step = @ + 1]

\* Variant of checkout_input that stores the text before validating it.
checkout_input_store_first(st, text) ==
    LET field == delivery_steps[st.step + 1]
    IN  IF validate_field(field, text)
        THEN store_answer(st, field, text)
        ELSE [st EXCEPT !.data = Put(@, field, text)]

\* Lines 892-901: what a text does to the form at a step below the review.
checkout_input(st, text) ==
    LET field == delivery_steps[st.step + 1]
    IN  IF validate_field(field, text) THEN store_answer(st, field, text) ELSE st

\* send_order_review once the cart is known to be non-empty: the step is the
\* field count and the prompt handle is dropped.
review_state(st) == [st EXCEPT !.step = Len(delivery_steps), !.msg_id = 0]

handle_checkout_input(user_id, chat_id, raw, edit_ok) ==
    LET text == strip(raw)
    IN
    /\ pc[user_id].at = "idle"
    /\ IF user_id \notin DOMAIN user_states
       THEN /\ lastEvent' = Event("text", user_id, raw, "no_checkout", 1, <<>>)
            /\ UNCHANGED <<user_carts, user_states, last_activity>>
       ELSE IF SessionExpired(user_id)
       THEN /\ clear_session(user_id)
            /\ lastEvent' = Event("text", user_id, raw, "expired", 1, <<>>)
       ELSE IF user_states[user_id].step >= Len(delivery_steps)
       THEN /\ lastEvent' = Event("text", user_id, raw, "ignored", 0, <<>>)
            /\ UNCHANGED <<user_carts, user_states, last_activity>>
       ELSE IF ~validate_field(delivery_steps[user_states[user_id].step + 1], text)
       THEN LET kept == [user_states EXCEPT ![user_id] = checkout_input(@, text)]
                prompt == edit_or_send(kept, chat_id, edit_ok)
            IN  /\ user_states' = prompt.us
                /\ lastEvent' = Event("text", user_id, raw,
                                      IF prompt.raised THEN "raised" ELSE "invalid",
                                      1 + prompt.sent, <<>>)
                /\ UNCHANGED <<user_carts, last_activity>>
       ELSE LET stored == [user_states EXCEPT ![user_id] = checkout_input(@, text)]
                prompt == edit_or_send(stored, chat_id, edit_ok)
            IN  IF stored[user_id].step < Len(delivery_steps)
                THEN /\ user_states' = prompt.us
                     /\ last_activity' = update_activity(last_activity, user_id)
                     /\ lastEvent' = Event("text", user_id, raw,
                                           IF prompt.raised THEN "raised" ELSE "stored",
                                           prompt.sent, <<>>)
                     /\ UNCHANGED user_carts
                ELSE IF DOMAIN Get(user_carts, user_id, EmptyDict) = {}
                THEN /\ clear_session(user_id)
                     /\ lastEvent' = Event("text", user_id, raw, "empty_cart", 1, <<>>)
                ELSE /\ user_states' = [stored EXCEPT ![user_id] = review_state(@)]
                     /\ last_activity' = update_activity(last_activity, user_id)
                     /\ lastEvent' = Event("text", user_id, raw, "review", 1,
                                           review_totals(user_carts[user_id]))
                     /\ UNCHANGED user_carts
    /\ UNCHANGED <<user_cart_message, user_menu_messages, order_counters, counter_file,
                   orders, MAINTENANCE, stripe_enabled, boots, now, pc, minted>>


\* ----------------------------------------------------------- counter file
\* json.dump of the counter dict: the object text, as its set of "key": value
\* members.
json_dump(d) == {<<k, d[k]>> : k \in DOMAIN d}

\* json.load of such a text: the dict that has one key per member.
json_load(f) == [k \in {m[1] : m \in f} |-> (CHOOSE m \in f : m[1] = k)[2]]

\* Variant of load_counters that starts from an empty dict whatever the file.
load_counters_afresh(f) == EmptyDict

\* Lines 228-232: at start-up the counters are read from the counter file if
\* it exists, else they are empty; f is the file's text, {} when there is none.
load_counters(f) == IF f # {} THEN json_load(f) ELSE EmptyDict

\* ----------------------------------------------------------- confirmation
\* Line 237: the day stamp of datetime.now().
Today == now \div SecondsPerDay

\* notify_admins binds delivery_text only under `if delivery:`; with a zero
\* delivery fee the message template reads an unbound local and raises.
notify_admins_raises(delivery) == delivery = 0

\* Variant of confirm_order_capped that tests for a missing cart instead of an
\* empty one.
confirm_order_capped_any_cart(user_id, chat_id, cap) ==
    /\ pc[user_id].at = "idle"
    /\ \/ check_and_handle_expiry("confirm", user_id, <<>>)
       \/ /\ ~SessionExpired(user_id)
          /\ user_id \notin DOMAIN user_states
          /\ lastEvent' = Event("confirm", user_id, <<>>, "no_order", 0, <<>>)
          /\ UNCHANGED <<user_carts, user_states, last_activity, user_cart_message,
                         user_menu_messages, order_counters, counter_file, orders,
                         MAINTENANCE, stripe_enabled, boots, now, pc, minted>>
       \/ /\ ~SessionExpired(user_id)
          /\ user_id \in DOMAIN user_states
          /\ user_id \notin DOMAIN user_carts
          /\ clear_session(user_id)
          /\ lastEvent' = Event("confirm", user_id, <<>>, "empty_cart", 1, <<>>)
          /\ UNCHANGED <<user_cart_message, user_menu_messages, order_counters,
                         counter_file, orders, MAINTENANCE, stripe_enabled, boots, now, pc,
                         minted>>
       \/ /\ ~SessionExpired(user_id)
          /\ user_id \in DOMAIN user_states
          /\ user_id \in DOMAIN user_carts
          /\ Len(minted) < cap
          /\ pc' = [pc EXCEPT ![user_id] =
                       [at |-> "mint", count |-> Get(order_counters, Today, 0) + 1,
                        chat |-> chat_id]]
          /\ lastEvent' = Event("confirm", user_id, <<>>, "minting", 0, <<>>)
          /\ UNCHANGED <<user_carts, user_states, last_activity, user_cart_message,
                         user_menu_messages, order_counters, counter_file, orders,
                         MAINTENANCE, stripe_enabled, boots, now, minted>>

\* confirm_order from its entry to line 238 of generate_order_id, where the
\* day counter is read into the local `count`.  cap bounds the number of ids
\* handed out.
confirm_order_capped(user_id, chat_id, cap) ==
    /\ pc[user_id].at = "idle"
    /\ \/ check_and_handle_expiry("confirm", user_id, <<>>)
       \/ /\ ~SessionExpired(user_id)
          /\ user_id \notin DOMAIN user_states
          /\ lastEvent' = Event("confirm", user_id, <<>>, "no_order", 0, <<>>)
          /\ UNCHANGED <<user_carts, user_states, last_activity, user_cart_message,
                         user_menu_messages, order_counters, counter_file, orders,
                         MAINTENANCE, stripe_enabled, boots, now, pc, minted>>
       \/ /\ ~SessionExpired(user_id)
          /\ user_id \in DOMAIN user_states
          /\ DOMAIN Get(user_carts, user_id, EmptyDict) = {}
          /\ clear_session(user_id)
          /\ lastEvent' = Event("confirm", user_id, <<>>, "empty_cart", 1, <<>>)
          /\ UNCHANGED <<user_cart_message, user_menu_messages, order_counters,
                         counter_file, orders, MAINTENANCE, stripe_enabled, boots, now, pc, minted>>
       \/ /\ ~SessionExpired(user_id)
          /\ user_id \in DOMAIN user_states
          /\ DOMAIN Get(user_carts, user_id, EmptyDict) # {}
          /\ Len(minted) < cap
          /\ pc' = [pc EXCEPT ![user_id] =
                       [at |-> "mint", count |-> Get(order_counters, Today, 0) + 1,
                        chat |-> chat_id]]
          /\ lastEvent' = Event("confirm", user_id, <<>>, "minting", 0, <<>>)
          /\ UNCHANGED <<user_carts, user_states, last_activity, user_cart_message,
                         user_menu_messages, order_counters, counter_file, orders,
                         MAINTENANCE, stripe_enabled, boots, now, minted>>

\* confirm_order where each run of the process hands out at most MaxMint ids.
confirm_order(user_id, chat_id) ==
    confirm_order_capped(user_id, chat_id, MaxMint * (boots + 1))

\* The row written to orders.csv (the address columns are left out).
order_row(order_id, user_id, cart, total) ==
    [order_id |-> order_id, username |-> user_id, items |-> cart, status |-> "pending",
     total |-> total]

\* Variant of append_order in which a failed write is swallowed.
append_order_swallowed(log, row, append_ok) ==
    [orders |-> IF append_ok THEN Append(log, row) ELSE log, raised |-> FALSE]

\* Lines 967-983: the row is appended to orders.csv; an error of open() or of
\* the write is not caught and leaves confirm_order.
append_order(log, row, append_ok) ==
    [orders |-> IF append_ok THEN Append(log, row) ELSE log, raised |-> ~append_ok]

\* notify_admins: building the text raises when delivery_text is unbound;
\* each send is wrapped in try/except, so a refused send is dropped.
notify_admins(delivery, send_ok) ==
    IF notify_admins_raises(delivery) THEN "raised"
    ELSE IF send_ok THEN "sent" ELSE "send_failed"

\* Variant of stripe_checkout without the except clause: the provider's error
\* leaves the handler.
stripe_checkout_unguarded(enabled, pay_ok) ==
    IF ~enabled THEN [payment |-> "none", outcome |-> "saved", sent |-> 1, raised |-> FALSE]
    ELSE IF pay_ok
    THEN [payment |-> "created", outcome |-> "pay_link", sent |-> 1, raised |-> FALSE]
    ELSE [payment |-> "failed", outcome |-> "raised", sent |-> 0, raised |-> TRUE]

\* Lines 1011-1077: with a Stripe key the checkout session is created and the
\* pay link sent; any exception of that block is caught and the user is told
\* that payment setup failed.  Without a key the plain saved message is sent.
stripe_checkout(enabled, pay_ok) ==
    IF ~enabled THEN [payment |-> "none", outcome |-> "saved", sent |-> 1, raised |-> FALSE]
    ELSE IF pay_ok
    THEN [payment |-> "created", outcome |-> "pay_link", sent |-> 1, raised |-> FALSE]
    ELSE [payment |-> "failed", outcome |-> "payment_failed", sent |-> 1, raised |-> FALSE]

\* confirm_order from line 239 of generate_order_id to its end: the counter is
\* written back and saved, the row is appended, admins are notified, the
\* payment link or message is sent and the session is cleared.  An exception
\* ends the run where it is raised.  append_ok, send_ok and pay_ok are the
\* answers of the file system, of the transport to the admin sends and of the
\* payment provider.
confirm_order_save(user_id, append_ok, send_ok, pay_ok) ==
    /\ pc[user_id].at = "mint"
    /\ LET count == pc[user_id].count
           order_id == <<Today, count>>
           info == user_states[user_id].data
           cart == user_carts[user_id]
           amounts == confirm_totals(cart)
           counters == Put(order_counters, Today, count)
           saved == append_order(orders, order_row(order_id, user_id, cart, amounts[3]),
                                 append_ok)
           notified == notify_admins(amounts[2], send_ok)
           pay == stripe_checkout(stripe_enabled, pay_ok)
           done(outcome, sent, append, notify, payment) ==
               [Event("confirm", user_id, <<>>, outcome, sent, amounts)
                   EXCEPT !.append = append, !.notify = notify, !.payment = payment]
       IN  /\ order_counters' = counters
           /\ counter_file' = json_dump(counters)
           /\ minted' = Append(minted, <<Today, count, boots>>)
           /\ pc' = [pc EXCEPT ![user_id] = Idle]
           /\ IF \E i \in 1..Len(delivery_steps) : delivery_steps[i] \notin DOMAIN info
              THEN /\ lastEvent' = done("raised", 0, "none", "none", "none")
                   /\ UNCHANGED <<orders, user_carts, user_states, last_activity>>
              ELSE IF saved.raised
              THEN /\ orders' = saved.orders
                   /\ lastEvent' = done("append_failed", 0, "failed", "none", "none")
                   /\ UNCHANGED <<user_carts, user_states, last_activity>>
              ELSE IF notified = "raised"
              THEN /\ orders' = saved.orders
                   /\ lastEvent' = done("saved_raised", 0,
                                        IF append_ok THEN "ok" ELSE "failed", notified, "none")
                   /\ UNCHANGED <<user_carts, user_states, last_activity>>
              ELSE IF pay.raised
              THEN /\ orders' = saved.orders
                   /\ lastEvent' = done(pay.outcome, pay.sent,
                                        IF append_ok THEN "ok" ELSE "failed", notified,
                                        pay.payment)
                   /\ UNCHANGED <<user_carts, user_states, last_activity>>
              ELSE /\ orders' = saved.orders
                   /\ clear_session(user_id)
                   /\ lastEvent' = done(pay.outcome, pay.sent,
                                        IF append_ok THEN "ok" ELSE "failed", notified,
                                        pay.payment)
    /\ UNCHANGED <<user_cart_message, user_menu_messages, MAINTENANCE, stripe_enabled, boots, now>>

\* ------------------------------------------------------------- /restart
restart(user_id, chat_id) ==
    /\ pc[user_id].at = "idle"
    /\ IF MAINTENANCE
       THEN /\ lastEvent' = Event("restart", user_id, <<>>, "maintenance", 1, <<>>)
            /\ UNCHANGED <<user_carts, user_states, last_activity>>
       ELSE /\ clear_session(user_id)
            /\ lastEvent' = Event("restart", user_id, <<>>, "ok", 1, <<>>)
    /\ UNCHANGED <<user_cart_message, user_menu_messages, order_counters, counter_file,
                   orders, MAINTENANCE, stripe_enabled, boots, now, pc, minted>>

\* ------------------------------------------------------ message commands
\* Line 59: the configured admin allowlist.
ADMIN_IDS == {"u2"}

is_admin(user_id) == user_id \in ADMIN_IDS

\* is_down: under maintenance the notice is sent and the caller returns.
is_down == MAINTENANCE

start(user_id, chat_id) ==
    /\ pc[user_id].at = "idle"
    /\ IF is_down
       THEN /\ lastEvent' = Event("start", user_id, <<>>, "maintenance", 1, <<>>)
            /\ UNCHANGED last_activity
       ELSE /\ last_activity' = update_activity(last_activity, user_id)
            /\ lastEvent' = Event("start", user_id, <<>>, "ok", 1, <<>>)
    /\ UNCHANGED <<user_carts, user_states, user_cart_message, user_menu_messages,
                   order_counters, counter_file, orders, MAINTENANCE, stripe_enabled, boots,
                   now, pc, minted>>

help_cmd(user_id, chat_id) ==
    /\ pc[user_id].at = "idle"
    /\ lastEvent' = Event("help", user_id, <<>>, "ok", 1, <<>>)
    /\ UNCHANGED <<user_carts, user_states, last_activity, user_cart_message,
                   user_menu_messages, order_counters, counter_file, orders, MAINTENANCE,
                   stripe_enabled, boots, now, pc, minted>>

\* The /order command: order() run on the user's own message.
order_command(user_id, chat_id) ==
    LET shown == order(last_activity, user_id, chat_id)
    IN  /\ pc[user_id].at = "idle"
        /\ last_activity' = shown.la
        /\ user_menu_messages' = shown.umm
        /\ lastEvent' = Event("order", user_id, <<>>,
                              IF is_down THEN "maintenance" ELSE "ok", shown.sent, <<>>)
        /\ UNCHANGED <<user_carts, user_states, user_cart_message, order_counters,
                       counter_file, orders, MAINTENANCE, stripe_enabled, boots, now, pc,
                       minted>>

\* open_cart_callback and show_cart: the old cart message is deleted if the
\* transport allows it, then the cart is presented; an edit of a message that
\* was just deleted fails.
present_cart(kind, user_id, chat_id, delete_ok, edit_ok) ==
    LET deleted == user_id \in DOMAIN user_cart_message /\ delete_ok
        shown == refresh_cart_message(user_cart_message, user_id, chat_id,
                                      edit_ok /\ ~deleted)
    IN  /\ pc[user_id].at = "idle"
        /\ user_cart_message' = shown.ucm
        /\ lastEvent' = [Event(kind, user_id, <<>>, "ok", shown.sent, <<>>)
                            EXCEPT !.edit = shown.edit]
        /\ UNCHANGED <<user_carts, user_states, last_activity, user_menu_messages,
                       order_counters, counter_file, orders, MAINTENANCE, stripe_enabled,
                       boots, now, pc, minted>>

open_cart_callback(user_id, chat_id, delete_ok, edit_ok) ==
    present_cart("open_cart", user_id, chat_id, delete_ok, edit_ok)

show_cart(user_id, chat_id, delete_ok, edit_ok) ==
    present_cart("cart", user_id, chat_id, delete_ok, edit_ok)

\* maintenance_on / maintenance_off: the flag is set by an allowlisted admin;
\* anyone else is ignored without a reply.
set_maintenance(kind, user_id, text, flag) ==
    /\ pc[user_id].at = "idle"
    /\ IF is_admin(user_id)
       THEN /\ MAINTENANCE' = flag
            /\ lastEvent' = Event(kind, user_id, text, "ok", 1, <<>>)
       ELSE /\ MAINTENANCE' = MAINTENANCE
            /\ lastEvent' = Event(kind, user_id, text, "ignored", 0, <<>>)
    /\ UNCHANGED <<user_carts, user_states, last_activity, user_cart_message,
                   user_menu_messages, order_counters, counter_file, orders, stripe_enabled,
                   boots, now, pc, minted>>

maintenance_on(user_id, text) == set_maintenance("maintenance_on", user_id, text, TRUE)

maintenance_off(user_id, text) == set_maintenance("maintenance_off", user_id, text, FALSE)

\* last_orders: an admin is shown the last rows of the order log.
last_orders(user_id, text) ==
    /\ pc[user_id].at = "idle"
    /\ lastEvent' = Event("last_orders", user_id, text,
                          IF is_admin(user_id) THEN "ok" ELSE "ignored",
                          IF is_admin(user_id) THEN 1 ELSE 0, <<>>)
    /\ UNCHANGED <<user_carts, user_states, last_activity, user_cart_message,
                   user_menu_messages, order_counters, counter_file, orders, MAINTENANCE,
                   stripe_enabled, boots, now, pc, minted>>

\* ------------------------------------------------------ message dispatch
\* The texts of the commands.
StartText == <<"/", "s", "t", "a", "r", "t">>
RestartText == <<"/", "r", "e", "s", "t", "a", "r", "t">>
OrderText == <<"/", "o", "r", "d", "e", "r">>
MaintenanceOnText == <<"/", "m", "a", "i", "n", "t", "e", "n", "a", "n", "c", "e", "_", "o", "n">>
MaintenanceOffText == <<"/", "m", "a", "i", "n", "t", "e", "n", "a", "n", "c", "e", "_", "o", "f", "f">>

\* The command a text carries, as the library extracts it: the first word
\* without its slash and without an @botname suffix; <<>> if the text is no
\* command.
RECURSIVE CommandEnd(_, _)
CommandEnd(text, i) ==
    IF i > Len(text) \/ text[i] \in Whitespace \cup {"@"} THEN i - 1
    ELSE CommandEnd(text, i + 1)

extract_command(text) ==
    IF text = <<>> \/ text[1] # "/" THEN <<>> ELSE SubSeq(text, 2, CommandEnd(text, 2))

\* The message handlers in the order the decorators register them; a handler
\* takes the listed commands, or every message when `every` is set.
message_handlers ==
    << [name |-> "start", every |-> FALSE, commands |-> {Tail(StartText)}],
       [name |-> "restart", every |-> FALSE, commands |-> {Tail(RestartText)}],
       [name |-> "help", every |-> FALSE, commands |-> {<<"h", "e", "l", "p">>}],
       [name |-> "order", every |-> FALSE, commands |-> {Tail(OrderText)}],
       [name |-> "cart", every |-> FALSE, commands |-> {<<"c", "a", "r", "t">>}],
       [name |-> "handle_checkout_input", every |-> TRUE, commands |-> {}],
       [name |-> "maintenance_on", every |-> FALSE, commands |-> {Tail(MaintenanceOnText)}],
       [name |-> "maintenance_off", every |-> FALSE,
        commands |-> {Tail(MaintenanceOffText)}],
       [name |-> "last_orders", every |-> FALSE,
        commands |-> {<<"l", "a", "s", "t", "_", "o", "r", "d", "e", "r", "s">>}] >>

Matches(handler, text) ==
    handler.every \/ (extract_command(text) # <<>> /\ extract_command(text) \in handler.commands)

\* The library hands a message to the first registered handler that matches.
first_match(text) ==
    LET hits == {i \in DOMAIN message_handlers : Matches(message_handlers[i], text)}
    IN  message_handlers[CHOOSE i \in hits : \A j \in hits : i <= j].name

\* A text message arrives from user_id in chat_id and is dispatched.
process_new_messages(user_id, chat_id, text, edit_ok) ==
    LET name == first_match(text)
    IN  CASE name = "start" -> start(user_id, chat_id)
          [] name = "restart" -> restart(user_id, chat_id)
          [] name = "help" -> help_cmd(user_id, chat_id)
          [] name = "order" -> order_command(user_id, chat_id)
          [] name = "cart" -> show_cart(user_id, chat_id, TRUE, edit_ok)
          [] name = "handle_checkout_input" ->
                 handle_checkout_input(user_id, chat_id, text, edit_ok)
          [] name = "maintenance_on" -> maintenance_on(user_id, text)
          [] name = "maintenance_off" -> maintenance_off(user_id, text)
          [] name = "last_orders" -> last_orders(user_id, text)

\* -------------------------------------------------------- process start
\* The process is stopped and started again: the module body runs anew.  The
\* in-memory stores are empty, the counters are loaded from the counter file,
\* handler runs in progress are gone; the files and the clock go on.  The
\* MAINTENANCE environment variable is at its default, as in Init.
process_start ==
    /\ boots < MaxBoots
    /\ boots' = boots + 1
    /\ user_carts' = EmptyDict
    /\ user_states' = EmptyDict
    /\ last_activity' = EmptyDict
    /\ user_cart_message' = EmptyDict
    /\ user_menu_messages' = EmptyDict
    /\ order_counters' = load_counters(counter_file)
    /\ MAINTENANCE' = FALSE
    /\ pc' = [u \in Users |-> Idle]
    /\ lastEvent' = Event("process_start", "", <<>>, "ok", 0, <<>>)
    /\ UNCHANGED <<counter_file, orders, stripe_enabled, now, minted>>

\* ---------------------------------------------------------------- clock
\* Time passes between two events, never inside a handler run.
Tick(d) ==
    /\ \A u \in DOMAIN pc : pc[u].at = "idle"
    /\ now + d <= MaxNow
    /\ now' = now + d
    /\ lastEvent' = Event("tick", "", <<>>, "ok", 0, <<>>)
    /\ UNCHANGED <<user_carts, user_states, last_activity, user_cart_message,
                   user_menu_messages, order_counters, counter_file, orders, MAINTENANCE,
                   stripe_enabled, boots, pc, minted>>

\* ------------------------------------------------------- specifications
\* Texts a shopper types during checkout: a blank one, which no field accepts,
\* and one that every field accepts, padded with a space.
FormTexts == { <<" ">>, <<"A", "1", " ", "1", "A", "A", " ">> }

\* The state after start-up: empty in-memory stores, no counter file and no
\* rows yet, the MAINTENANCE environment variable at its default, and the
\* Stripe key either configured or not.
Init ==
    /\ user_carts = EmptyDict
    /\ user_states = EmptyDict
    /\ last_activity = EmptyDict
    /\ user_cart_message = EmptyDict
    /\ user_menu_messages = EmptyDict
    /\ order_counters = EmptyDict
    /\ counter_file = {}
    /\ orders = <<>>
    /\ MAINTENANCE = FALSE
    /\ stripe_enabled \in BOOLEAN
    /\ now = 0
    /\ pc = [u \in Users |-> Idle]
    /\ minted = <<>>
    /\ boots = 0
    /\ lastEvent = Event("init", "", <<>>, "ok", 0, <<>>)

\* One shopper in a private chat (the chat id is the user id).  The transport
\* may refuse any edit of the form prompt; edits of the cart message succeed.
Next ==
    \/ \E item \in ShopperItems : add_to_cart(Shopper, Shopper, item, TRUE)
    \/ clear_cart(Shopper, Shopper, TRUE)
    \/ \E ok \in BOOLEAN : handle_cart_actions(Shopper, Shopper, "begin_checkout", ok)
    \/ \E ok \in BOOLEAN : go_back(Shopper, Shopper, ok)
    \/ \E ok \in BOOLEAN : edit_address(Shopper, Shopper, ok)
    \/ \E raw \in FormTexts, ok \in BOOLEAN : handle_checkout_input(Shopper, Shopper, raw, ok)
    \/ confirm_order(Shopper, Shopper)
    \/ \E append_ok, send_ok, pay_ok \in BOOLEAN :
          confirm_order_save(Shopper, append_ok, send_ok, pay_ok)
    \/ restart(Shopper, Shopper)
    \/ \E d \in Delays : Tick(d)

Spec == Init /\ [][Next]_vars


\* Two shoppers, each in a private chat, whose handlers run concurrently on
\* the bot's worker threads: add, begin checkout, answer the form, confirm.
\* Edits of live messages succeed, no time passes, and Confirm is pressed on
\* the review the shopper is looking at.
ReviewShown(u) == u \in DOMAIN user_states /\ user_states[u].step = Len(delivery_steps)

ValidText == <<"A", "1", " ", "1", "A", "A", " ">>

NextConc ==
    \/ \E u \in Users : add_to_cart(u, u, "Sticker A", TRUE)
    \/ \E u \in Users : handle_cart_actions(u, u, "begin_checkout", TRUE)
    \/ \E u \in Users : handle_checkout_input(u, u, ValidText, TRUE)
    \/ \E u \in Users : ReviewShown(u) /\ confirm_order(u, u)
    \/ \E u \in Users, pay_ok \in BOOLEAN : confirm_order_save(u, TRUE, TRUE, pay_ok)

SpecConc == Init /\ [][NextConc]_vars


\* One shopper ordering one sticker again and again while the process is
\* stopped and started in between, at any point of a confirm.  Edits of live
\* messages and the admin sends succeed; the append and the payment may fail.
NextRestart ==
    \/ /\ DOMAIN Get(user_carts, Shopper, EmptyDict) = {}
       /\ add_to_cart(Shopper, Shopper, "Sticker A", TRUE)
    \/ handle_cart_actions(Shopper, Shopper, "begin_checkout", TRUE)
    \/ handle_checkout_input(Shopper, Shopper, ValidText, TRUE)
    \/ ReviewShown(Shopper) /\ confirm_order(Shopper, Shopper)
    \/ \E append_ok, pay_ok \in BOOLEAN :
          confirm_order_save(Shopper, append_ok, TRUE, pay_ok)
    \/ process_start

SpecRestart == Init /\ [][NextRestart]_vars


\* One shopper who fills the cart, checks out once and then presses Confirm on
\* the review again and again.  Nothing is added and no checkout is begun once
\* an order row exists, so every row comes from the one form.  Edits of live
\* messages, the append, the transport and the payment succeed.
RepeatCap == MaxMint + 1

NextRepeat ==
    \/ /\ orders = <<>>
       /\ \E item \in ShopperItems : add_to_cart(Shopper, Shopper, item, TRUE)
    \/ /\ orders = <<>>
       /\ handle_cart_actions(Shopper, Shopper, "begin_checkout", TRUE)
    \/ \E text \in FormTexts : handle_checkout_input(Shopper, Shopper, text, TRUE)
    \/ go_back(Shopper, Shopper, TRUE)
    \/ ReviewShown(Shopper) /\ confirm_order_capped(Shopper, Shopper, RepeatCap)
    \/ confirm_order_save(Shopper, TRUE, TRUE, TRUE)

SpecRepeat == Init /\ [][NextRepeat]_vars


\* One shopper who uses the bot in the private chat and in a group chat: the
\* chat id of the private chat is the user id, the chat id of a group is the
\* id of the group.  The transport may refuse an edit.
GroupChat == "g1"

Chats == {Shopper, GroupChat}

NextGroup ==
    \/ \E chat \in Chats : add_to_cart(Shopper, chat, "Sticker A", TRUE)
    \/ \E chat \in Chats, ok \in BOOLEAN :
          handle_cart_actions(Shopper, chat, "begin_checkout", ok)
    \/ \E chat \in Chats, raw \in FormTexts, ok \in BOOLEAN :
          handle_checkout_input(Shopper, chat, raw, ok)
    \/ \E chat \in Chats, ok \in BOOLEAN : go_back(Shopper, chat, ok)
    \/ \E chat \in Chats, ok \in BOOLEAN : edit_address(Shopper, chat, ok)

SpecGroup == Init /\ [][NextGroup]_vars


\* The shopper and the admin, each in a private chat, sending commands and
\* texts through the dispatcher while the shopper also presses Add, Checkout
\* and Confirm.  The shopper tries the admin's command before checking out.
\* The process may have been started with the MAINTENANCE environment
\* variable set.  Edits of live messages, the append, the admin sends and the
\* payment succeed.
InitEnv ==
    /\ user_carts = EmptyDict
    /\ user_states = EmptyDict
    /\ last_activity = EmptyDict
    /\ user_cart_message = EmptyDict
    /\ user_menu_messages = EmptyDict
    /\ order_counters = EmptyDict
    /\ counter_file = {}
    /\ orders = <<>>
    /\ MAINTENANCE \in BOOLEAN
    /\ stripe_enabled = FALSE
    /\ now = 0
    /\ pc = [u \in Users |-> Idle]
    /\ minted = <<>>
    /\ boots = 0
    /\ lastEvent = Event("init", "", <<>>, "ok", 0, <<>>)

ShopperTexts == {StartText, OrderText, RestartText, ValidText}

AdminTexts == {MaintenanceOnText, MaintenanceOffText}

Admin == CHOOSE u \in Users : is_admin(u)

NextCommands ==
    \/ \E text \in ShopperTexts : process_new_messages(Shopper, Shopper, text, TRUE)
    \/ /\ Shopper \notin DOMAIN user_states
       /\ process_new_messages(Shopper, Shopper, MaintenanceOnText, TRUE)
    \/ \E text \in AdminTexts : process_new_messages(Admin, Admin, text, TRUE)
    \/ add_to_cart(Shopper, Shopper, "Sticker A", TRUE)
    \/ handle_cart_actions(Shopper, Shopper, "begin_checkout", TRUE)
    \/ confirm_order(Shopper, Shopper)
    \/ confirm_order_save(Shopper, TRUE, TRUE, TRUE)
    \/ \E d \in Delays : Tick(d)

SpecCommands == InitEnv /\ [][NextCommands]_vars


\* One shopper working the cart: the add-buttons of every product and of a
\* stale one, Clear Cart, Open Cart, /cart and /restart, with the transport
\* free to refuse any delete or edit, and time passing.
NextCart ==
    \/ \E item \in AddItems, ok \in BOOLEAN : add_to_cart(Shopper, Shopper, item, ok)
    \/ \E ok \in BOOLEAN : clear_cart(Shopper, Shopper, ok)
    \/ \E del, ok \in BOOLEAN : open_cart_callback(Shopper, Shopper, del, ok)
    \/ \E del, ok \in BOOLEAN : show_cart(Shopper, Shopper, del, ok)
    \/ restart(Shopper, Shopper)
    \/ \E d \in Delays : Tick(d)

SpecCart == Init /\ [][NextCart]_vars


\* Two shoppers, each in a private chat, browsing: /order, the add-button
\* while the cart is empty, Clear Cart, and the Continue Shopping button of a
\* cart message that was shown.  Edits of live messages succeed.
NextBrowse ==
    \/ \E u \in Users : order_command(u, u)
    \/ \E u \in Users :
          /\ DOMAIN Get(user_carts, u, EmptyDict) = {}
          /\ add_to_cart(u, u, "Sticker A", TRUE)
    \/ \E u \in Users : clear_cart(u, u, TRUE)
    \/ \E u \in Users :
          /\ u \in DOMAIN user_cart_message
          /\ handle_cart_actions(u, u, "continue_order", TRUE)

SpecBrowse == Init /\ [][NextBrowse]_vars


\* validate_field applied to every field and to every text of a bounded set:
\* all texts of at most MaxLen characters over one character of each class,
\* and a few longer samples.
ValAlphabet == {"J", "1", " ", "-", "!"}

RECURSIVE TextsUpTo(_)
TextsUpTo(n) ==
    IF n = 0 THEN {<<>>}
    ELSE LET shorter == TextsUpTo(n - 1)
         IN  shorter \cup {Append(t, c) : t \in shorter, c \in ValAlphabet}

SampleTexts ==
    { <<"J", "o", " ", "S", "m", "i", "t", "h">>,
      <<" ", "J", "o", " ", " ">>,
      <<"A", "1", " ", "1", "A", "A">>,
      <<"S", "W", "1", "A", " ", "1", "A", "A">>,
      <<"A", "1", "1", "A", "A">>,
      <<"J", "o", "h", "J", "o", "h", "J", "o", "h", "J", "o", "h", "J">>,
      <<"1", "2", "1", "2">>,
      <<"!", "!", "!", "!">> }

ValTexts == TextsUpTo(MaxLen) \cup SampleTexts

validate(field, text) ==
    /\ lastEvent' = [kind |-> "validate", field |-> field, text |-> text,
                     accepted |-> validate_field(field, text)]
    /\ UNCHANGED <<user_carts, user_states, last_activity, user_cart_message,
                   user_menu_messages, order_counters, counter_file, orders, MAINTENANCE,
                   stripe_enabled, boots, now, pc, minted>>

NextValidate ==
    \E i \in 1..Len(delivery_steps), text \in ValTexts : validate(delivery_steps[i], text)

SpecValidate == Init /\ [][NextValidate]_vars


\* ===================================================================
\* Properties
\* ===================================================================
FieldAt(step) == delivery_steps[step + 1]

HasForm(u) == u \in DOMAIN user_states

CartOf(u) == Get(user_carts, u, EmptyDict)

\* A handler run of `kind` for user u is completing in this step.
Handled(kind, u) == lastEvent'.kind = kind /\ lastEvent'.user = u

OrderAppended == Len(orders') = Len(orders) + 1

\* C1: an order row is appended for a user only while that user's form is at
\* step 5 and the cart is non-empty; a confirm arriving at a step below 5
\* creates no order.
C1_ConfirmOnlyWhenReady ==
    [][\A u \in Users :
          (Handled("confirm", u) /\ OrderAppended) =>
              /\ HasForm(u)
              /\ user_states[u].step = NumSteps
              /\ DOMAIN CartOf(u) # {}]_vars

\* C2: every confirm that appends an order row ends with the user's cart and
\* form both destroyed, whatever the payment outcome and the delivery fee.
C2_ConfirmResetsSession ==
    [][\A u \in Users :
          (Handled("confirm", u) /\ OrderAppended) =>
              /\ u \notin DOMAIN user_carts'
              /\ u \notin DOMAIN user_states']_vars

\* C3: generate_order_id never returns the same id twice, and the sequence
\* numbers of one day increase strictly in the order the calls complete.
C3_OrderIdsUniqueIncreasing ==
    \A i, j \in DOMAIN minted :
        (i < j /\ minted[i][1] = minted[j][1]) => minted[i][2] < minted[j][2]

\* C4: an event of a mutating entry point (add, clear cart, begin checkout,
\* field text, back or edit address for an open form, confirm) that arrives
\* more than the timeout after the last recorded activity of a user with a
\* non-empty cart or a form destroys cart and form and applies nothing.
MutatingKinds ==
    {"add", "clear_cart", "begin_checkout", "text", "back", "edit_address", "confirm"}

C4_ExpiredActionRejected ==
    [][\A u \in Users :
          ( /\ lastEvent'.kind \in MutatingKinds
            /\ lastEvent'.user = u
            /\ lastEvent'.kind \in {"text", "back", "edit_address"} => HasForm(u)
            /\ SessionExpired(u) ) =>
              /\ u \notin DOMAIN user_carts'
              /\ u \notin DOMAIN user_states'
              /\ orders' = orders]_vars

\* The text of the event fails the code's validation for the field the form
\* of u is waiting for.
FailsValidation(u) ==
    /\ Handled("text", u)
    /\ HasForm(u)
    /\ ~SessionExpired(u)
    /\ user_states[u].step < NumSteps
    /\ ~validate_field(FieldAt(user_states[u].step), lastEvent'.text)

\* C5: a text that fails validation for the active field leaves the form's
\* step and its answers exactly as they were, at every step 0..4.
C5_InvalidInputKeepsForm ==
    [][\A u \in Users :
          FailsValidation(u) =>
              /\ u \in DOMAIN user_states'
              /\ user_states'[u].step = user_states[u].step
              /\ user_states'[u].data = user_states[u].data]_vars

C5_Witness ==
    /\ lastEvent.kind = "text"
    /\ lastEvent.outcome = "invalid"
    /\ HasForm(lastEvent.user)
    /\ user_states[lastEvent.user].step = 2
    /\ DOMAIN user_states[lastEvent.user].data = {"name", "house", "street"}

\* C6: a text that fails validation creates no new chat message and leaves
\* the stored handle of the form widget unchanged.
C6_InvalidInputSendsNothing ==
    [][\A u \in Users :
          FailsValidation(u) =>
              /\ lastEvent'.sent = 0
              /\ u \in DOMAIN user_states'
              /\ user_states'[u].msg_id = user_states[u].msg_id]_vars

\* The strict rule table of the checkout form.
Contains(t, chars) == \E i \in DOMAIN t : t[i] \in chars

UkPostcode(t) ==
    \E letters \in 1..2, extra \in 0..1, space \in 0..1 :
        LET d1 == letters + 1
            d2 == d1 + extra + space + 1
        IN  /\ Len(t) = d2 + 2
            /\ \A i \in 1..letters : t[i] \in Letters
            /\ t[d1] \in Digits
            /\ extra = 1 => t[d1 + 1] \in Letters \cup Digits
            /\ space = 1 => t[d1 + extra + 1] \in Whitespace
            /\ t[d2] \in Digits
            /\ t[d2 + 1] \in Letters
            /\ t[d2 + 2] \in Letters

StrictRule(field, text) ==
    LET t == strip(text)
    IN  CASE field = "name"     -> Len(t) >= 3 /\ Contains(t, Whitespace)
          [] field = "house"    -> /\ Len(t) \in 1..12
                                   /\ \A i \in DOMAIN t :
                                         t[i] \in Letters \cup Digits \cup Whitespace \cup Hyphens
          [] field = "street"   -> Len(t) >= 3 /\ Contains(t, Letters)
          [] field = "city"     -> Len(t) >= 2 /\ Contains(t, Letters)
          [] field = "postcode" -> UkPostcode(t)

\* C7: validate_field accepts a text for a field exactly when the strict rule
\* table holds for it.
C7_ValidateFollowsStrictTable ==
    lastEvent.kind = "validate" =>
        (lastEvent.accepted <=> StrictRule(lastEvent.field, lastEvent.text))

\* C8: back at step 0 changes neither step nor answers; back at a step k > 0
\* sets the step to k-1 and leaves every stored answer unchanged.
C8_BackKeepsAnswers ==
    [][\A u \in Users :
          (Handled("back", u) /\ HasForm(u)) =>
              /\ u \in DOMAIN user_states'
              /\ user_states'[u].data = user_states[u].data
              /\ user_states'[u].step =
                    IF user_states[u].step = 0 THEN 0 ELSE user_states[u].step - 1]_vars

C8_Witness ==
    /\ lastEvent.kind = "back"
    /\ lastEvent.outcome = "ok"
    /\ HasForm(lastEvent.user)
    /\ user_states[lastEvent.user].step = 2
    /\ "street" \in DOMAIN user_states[lastEvent.user].data

\* C9: every product key present in any user's cart has an integer quantity
\* of at least 1.
C9_CartQuantitiesPositive ==
    \A u \in DOMAIN user_carts :
        \A item \in DOMAIN user_carts[u] :
            user_carts[u][item] \in Nat /\ user_carts[u][item] >= 1

C9_Witness ==
    /\ lastEvent.kind = "add"
    /\ lastEvent.outcome = "ok"
    /\ lastEvent.user \in DOMAIN user_carts
    /\ user_carts[lastEvent.user] = [item \in {"Sticker A"} |-> 2]
    /\ Len(orders) = 1

\* The totals rule, written out: the sum of price x quantity over the cart
\* entries that are in the catalog, the fee rule, and their sum.
RECURSIVE RuleSubtotal(_, _)
RuleSubtotal(cart, items) ==
    IF items = {} THEN 0
    ELSE LET item == CHOOSE x \in items : TRUE
         IN  catalog[item] * cart[item] + RuleSubtotal(cart, items \ {item})

RuleTotals(cart) ==
    LET subtotal == RuleSubtotal(cart, DOMAIN cart \cap DOMAIN catalog)
        fee == IF subtotal >= 10000 THEN 0 ELSE 2500
    IN  <<subtotal, fee, subtotal + fee>>

\* C10: the amounts computed at confirm follow the totals rule, and the total
\* persisted with the order is subtotal + delivery fee; 2 x 3.00 gives
\* 6.00 / 2.50 / 8.50 and 4 x 3.00 gives 12.00 / 0.00 / 12.00.
C10_ConfirmTotals ==
    [][\A u \in Users :
          (Handled("confirm", u) /\ OrderAppended) =>
              /\ lastEvent'.amounts = RuleTotals(user_carts[u])
              /\ orders'[Len(orders')].total = RuleTotals(user_carts[u])[3]
              /\ user_carts[u] = [item \in {"Sticker A"} |-> 2] =>
                     lastEvent'.amounts = <<6000, 2500, 8500>>
              /\ user_carts[u] = [item \in {"Sticker A"} |-> 4] =>
                     lastEvent'.amounts = <<12000, 0, 12000>>]_vars

C10_Witness ==
    /\ lastEvent.kind = "confirm"
    /\ Len(orders) = 1
    /\ orders[1].items = [item \in {"Sticker A"} |-> 4]
    /\ orders[1].total = 12000
    /\ lastEvent.amounts = <<12000, 0, 12000>>

\* C11: when the admin notification of a confirm fails, be it a refused send
\* or an error raised while the text is built, the order row appended before
\* it stays in the log, the user still gets the order or payment message and
\* the session is reset.
C11_NotifyFailureHarmless ==
    [][\A u \in Users :
          (Handled("confirm", u) /\ lastEvent'.notify \in {"raised", "send_failed"}) =>
              /\ OrderAppended
              /\ lastEvent'.sent >= 1
              /\ u \notin DOMAIN user_carts'
              /\ u \notin DOMAIN user_states'
              /\ u \notin DOMAIN last_activity']_vars

\* C12: when the creation of the payment intent fails, the row appended by the
\* same confirm is in the order log with status pending, the user is told
\* that payment setup failed, and the handler ends without raising.
C12_PaymentFailureKeepsOrder ==
    [][\A u \in Users :
          (Handled("confirm", u) /\ lastEvent'.payment = "failed") =>
              /\ OrderAppended
              /\ orders'[Len(orders')].username = u
              /\ orders'[Len(orders')].status = "pending"
              /\ SubSeq(orders', 1, Len(orders)) = orders
              /\ lastEvent'.outcome = "payment_failed"
              /\ lastEvent'.sent = 1]_vars

C12_Witness ==
    /\ lastEvent.kind = "confirm"
    /\ lastEvent.payment = "failed"
    /\ lastEvent.outcome = "payment_failed"
    /\ Len(orders) = 1
    /\ orders[1].status = "pending"

\* C13: when the append of the order row fails, the confirm is no success:
\* the log is unchanged, no admin notification is sent, the user is shown no
\* success message or payment link, and no payment intent is created.
C13_AppendFailureStopsConfirm ==
    [][\A u \in Users :
          (Handled("confirm", u) /\ lastEvent'.append = "failed") =>
              /\ orders' = orders
              /\ lastEvent'.notify = "none"
              /\ lastEvent'.payment = "none"
              /\ lastEvent'.sent = 0]_vars

C13_Witness ==
    /\ lastEvent.kind = "confirm"
    /\ lastEvent.append = "failed"
    /\ orders = <<>>
    /\ Len(minted) = 1
    /\ HasForm(lastEvent.user)
    /\ user_states[lastEvent.user].step = NumSteps

\* C14: an order id minted after the process was started again has a
\* sequence number strictly greater than every sequence number minted for the
\* same day by an earlier run of the process; no id is reused.
C14_IdsNotReusedAcrossRestart ==
    \A i, j \in DOMAIN minted :
        (minted[i][3] < minted[j][3] /\ minted[i][1] = minted[j][1]) =>
            minted[i][2] < minted[j][2]

C14_Witness ==
    /\ minted = << <<0, 1, 0>>, <<0, 2, 1>> >>
    /\ order_counters = [d \in {0} |-> 2]
    /\ counter_file = {<<0, 2>>}

\* C15: begin checkout on a live session whose cart is empty or absent
\* reports the empty cart and neither creates a form nor changes one that
\* exists: a user without a form still has none.
C15_BeginNeedsCart ==
    [][\A u \in Users :
          ( /\ Handled("begin_checkout", u)
            /\ ~SessionExpired(u)
            /\ DOMAIN CartOf(u) = {} ) =>
              /\ lastEvent'.outcome = "empty_cart"
              /\ lastEvent'.sent = 1
              /\ user_states' = user_states
              /\ user_carts' = user_carts]_vars

C15_Witness ==
    /\ lastEvent.kind = "begin_checkout"
    /\ lastEvent.outcome = "empty_cart"
    /\ ~HasForm(lastEvent.user)
    /\ lastEvent.user \in DOMAIN user_carts
    /\ DOMAIN user_carts[lastEvent.user] = {}

\* The text of the event passes the code's validation for the field the live
\* form of u is waiting for.
PassesValidation(u) ==
    /\ Handled("text", u)
    /\ HasForm(u)
    /\ ~SessionExpired(u)
    /\ user_states[u].step < NumSteps
    /\ validate_field(FieldAt(user_states[u].step), lastEvent'.text)

AllFields == {delivery_steps[i] : i \in 1..NumSteps}

\* C16: a text that passes validation at step k < 5 stores the trimmed text
\* under field k, changes no other answer and advances the step by exactly 1;
\* when that makes the step 5 and the cart is non-empty, the form is ready to
\* confirm: step 5, the review shown, every field answered.
C16_ValidInputAdvances ==
    [][\A u \in Users :
          ( /\ PassesValidation(u)
            /\ user_states[u].step + 1 < NumSteps \/ DOMAIN CartOf(u) # {} ) =>
              LET k == user_states[u].step
                  field == FieldAt(k)
              IN  /\ u \in DOMAIN user_states'
                  /\ user_states'[u].step = k + 1
                  /\ DOMAIN user_states'[u].data = DOMAIN user_states[u].data \cup {field}
                  /\ user_states'[u].data[field] = strip(lastEvent'.text)
                  /\ \A f \in DOMAIN user_states[u].data \ {field} :
                        user_states'[u].data[f] = user_states[u].data[f]
                  /\ k + 1 = NumSteps =>
                        /\ lastEvent'.outcome = "review"
                        /\ DOMAIN user_states'[u].data = AllFields]_vars

C16_Witness ==
    /\ lastEvent.kind = "text"
    /\ lastEvent.outcome = "review"
    /\ lastEvent.text = <<"A", "1", " ", "1", "A", "A", " ">>
    /\ HasForm(lastEvent.user)
    /\ user_states[lastEvent.user].step = 5
    /\ user_states[lastEvent.user].data =
           [f \in AllFields |-> <<"A", "1", " ", "1", "A", "A">>]

\* C17: edit_address on a live form at step 5 sets the step to 0 and leaves
\* every stored answer unchanged.
C17_EditAddressKeepsAnswers ==
    [][\A u \in Users :
          ( /\ Handled("edit_address", u)
            /\ HasForm(u)
            /\ ~SessionExpired(u)
            /\ user_states[u].step = NumSteps ) =>
              /\ u \in DOMAIN user_states'
              /\ user_states'[u].step = 0
              /\ user_states'[u].data = user_states[u].data]_vars

C17_Witness ==
    /\ lastEvent.kind = "edit_address"
    /\ lastEvent.outcome = "ok"
    /\ HasForm(lastEvent.user)
    /\ user_states[lastEvent.user].step = 0
    /\ DOMAIN user_states[lastEvent.user].data = AllFields
    /\ user_states[lastEvent.user].msg_id # 0

\* The index of a delivery field, counted from 0.
IndexOf(field) == CHOOSE i \in 0..(NumSteps - 1) : delivery_steps[i + 1] = field

\* C18: in every reachable state of every user's form, an answer is stored
\* only for fields whose index is strictly less than the current step.
C18_AnswersOnlyBelowStep ==
    \A u \in DOMAIN user_states :
        \A f \in DOMAIN user_states[u].data : IndexOf(f) < user_states[u].step

\* C18, amended: an answer is stored only for fields whose index is strictly
\* less than the current step or whose answer was already stored before the
\* step was moved back (by back or edit_address, which keep the answers); no
\* operation stores a new answer for a field at or above the step it leaves.
C18_NewAnswersBelowStep ==
    [][\A u \in DOMAIN user_states' :
          \A f \in DOMAIN user_states'[u].data :
              \/ IndexOf(f) < user_states'[u].step
              \/ /\ HasForm(u)
                 /\ f \in DOMAIN user_states[u].data
                 /\ user_states'[u].data[f] = user_states[u].data[f]]_vars

C18_Witness ==
    /\ lastEvent.kind = "back"
    /\ lastEvent.outcome = "ok"
    /\ HasForm(lastEvent.user)
    /\ user_states[lastEvent.user].step = 0
    /\ DOMAIN user_states[lastEvent.user].data = {"name", "house"}

\* C19: every existing checkout form has an integer step between 0 and the
\* number of delivery fields, 5.
C19_StepInRange ==
    \A u \in DOMAIN user_states :
        user_states[u].step \in Int /\ 0 <= user_states[u].step /\ user_states[u].step <= 5

C19_Witness ==
    /\ lastEvent.kind = "back"
    /\ lastEvent.outcome = "first_step"
    /\ HasForm(lastEvent.user)
    /\ user_states[lastEvent.user].step = 0
    /\ Len(orders) = 1
    /\ orders[1].username = lastEvent.user

\* C20: an add, clear cart, begin checkout, field text, back or edit address
\* that changes the user's cart or the step or answers of the user's form and
\* leaves the session in place sets the user's last-activity time to the time
\* of the action.
TouchingKinds == {"add", "clear_cart", "begin_checkout", "text", "back", "edit_address"}

C20_MutationsTouchActivity ==
    [][\A u \in Users :
          ( /\ lastEvent'.kind \in TouchingKinds
            /\ lastEvent'.user = u
            /\ u \in DOMAIN user_carts' \/ u \in DOMAIN user_states'
            /\ \/ Get(user_carts', u, EmptyDict) # CartOf(u)
               \/ HasForm(u) # (u \in DOMAIN user_states')
               \/ /\ HasForm(u)
                  /\ u \in DOMAIN user_states'
                  /\ \/ user_states'[u].step # user_states[u].step
                     \/ user_states'[u].data # user_states[u].data ) =>
              /\ u \in DOMAIN last_activity'
              /\ last_activity'[u] = now]_vars

\* C21: while the maintenance flag is active, an add, clear cart, begin
\* checkout, field text, back, edit address or confirm changes no cart and no
\* form and appends no order.
C21_MaintenanceBlocksShoppers ==
    [][(MAINTENANCE /\ lastEvent'.kind \in MutatingKinds) =>
          /\ user_carts' = user_carts
          /\ user_states' = user_states
          /\ orders' = orders
          /\ pc' = pc]_vars

\* C22: the maintenance-on command of an allowlisted admin leaves the flag
\* active and the maintenance-off command of an allowlisted admin leaves it
\* inactive, and nothing else changes the flag; in particular the commands of
\* a user who is not on the allowlist do not.
C22_AdminTogglesMaintenance ==
    [][/\ (lastEvent'.text = MaintenanceOnText /\ is_admin(lastEvent'.user)) => MAINTENANCE'
       /\ (lastEvent'.text = MaintenanceOffText /\ is_admin(lastEvent'.user)) => ~MAINTENANCE'
       /\ MAINTENANCE' # MAINTENANCE =>
              /\ is_admin(lastEvent'.user)
              /\ lastEvent'.text \in {MaintenanceOnText, MaintenanceOffText}]_vars

\* C25: an interaction of a user whose cart or form has been idle for longer
\* than the timeout, whatever the interaction is, never leaves that cart or
\* form in place with a refreshed last-activity time: afterwards the session
\* is gone or still counts as expired.
C25_StaleSessionNeverRevived ==
    [][\A u \in Users :
          (lastEvent'.user = u /\ SessionExpired(u)) =>
              ~(has_active_session(u)' /\ ~SessionExpired(u)')]_vars

\* The event presents the cart widget of user u.
PresentsCart(u) ==
    /\ lastEvent'.user = u
    /\ lastEvent'.kind \in {"add", "clear_cart", "open_cart", "cart"}
    /\ lastEvent'.outcome = "ok"

\* C23: presenting the cart keeps one live handle per user.  An edit is
\* attempted exactly when a handle is stored, and only on the stored handle,
\* never on one that was replaced; when it succeeds no message is sent and
\* the handle is unchanged; when there is no handle or the edit fails exactly
\* one message is sent and its handle, a new one, replaces the stored one.
C23_OneLiveCartHandle ==
    [][\A u \in Users :
          PresentsCart(u) =>
              LET had == u \in DOMAIN user_cart_message
                  edit == lastEvent'.edit
              IN  /\ edit.tried <=> had
                  /\ edit.tried => edit.target = user_cart_message[u]
                  /\ (had /\ edit.ok) =>
                        /\ lastEvent'.sent = 0
                        /\ user_cart_message' = user_cart_message
                  /\ (~had \/ ~edit.ok) =>
                        /\ lastEvent'.sent = 1
                        /\ u \in DOMAIN user_cart_message'
                        /\ user_cart_message'[u][1] = u
                        /\ had => user_cart_message'[u] # user_cart_message[u]
                        /\ \A v \in DOMAIN user_cart_message \ {u} :
                              /\ v \in DOMAIN user_cart_message'
                              /\ user_cart_message'[v] = user_cart_message[v]]_vars

C23_Witness ==
    /\ lastEvent.kind = "cart"
    /\ lastEvent.edit = [tried |-> TRUE, target |-> <<"u1", 2>>, ok |-> FALSE]
    /\ lastEvent.sent = 1
    /\ user_cart_message = [u \in {"u1"} |-> <<"u1", 1>>]

\* C27: on a session that is not expired, the add of a product that is not in
\* the catalog leaves the user's cart and last-activity record unchanged, and
\* the add of a catalog product raises that product's quantity by exactly 1,
\* an absent product counting 0, and leaves every other cart entry unchanged.
C27_AddChangesOneEntry ==
    [][\A u \in Users :
          (Handled("add", u) /\ ~SessionExpired(u)) =>
              LET item == lastEvent'.item
                  old == CartOf(u)
              IN  IF item \notin DOMAIN catalog
                  THEN /\ user_carts' = user_carts
                       /\ last_activity' = last_activity
                  ELSE /\ u \in DOMAIN user_carts'
                       /\ DOMAIN user_carts'[u] = DOMAIN old \cup {item}
                       /\ user_carts'[u][item] = (IF item \in DOMAIN old THEN old[item] ELSE 0) + 1
                       /\ \A other \in DOMAIN old \ {item} :
                             user_carts'[u][other] = old[other]]_vars

C27_Witness ==
    /\ lastEvent.kind = "add"
    /\ lastEvent.outcome = "ok"
    /\ lastEvent.item = "Sticker B"
    /\ user_carts = [u \in {"u1"} |->
                        [p \in {"Sticker A", "Sticker B"} |-> IF p = "Sticker A" THEN 2 ELSE 1]]

\* The browse-menu messages tracked for deletion that were posted in the
\* private chat of user u, under whatever key they are tracked.
TrackedMenus(u) ==
    {e \in UNION {{user_menu_messages[k][i] : i \in DOMAIN user_menu_messages[k]} :
                     k \in DOMAIN user_menu_messages} : e[1] = u}

\* What the stores hold for user u.
StateOf(u) ==
    <<u \in DOMAIN user_carts, Get(user_carts, u, EmptyDict),
      u \in DOMAIN user_states, Get(user_states, u, EmptyDict),
      u \in DOMAIN last_activity, Get(last_activity, u, 0),
      u \in DOMAIN user_cart_message, Get(user_cart_message, u, <<>>),
      u \in DOMAIN user_menu_messages, Get(user_menu_messages, u, <<>>)>>

\* C24: an event of one user changes nothing that the stores hold for another
\* user (cart, form, last activity, cart handle, tracked browse menus) and
\* drops no browse menu tracked in another user's chat, also when the browse
\* is started from the Continue Shopping button.
C24_UsersIsolated ==
    [][\A a \in Users :
          lastEvent'.user = a =>
              \A b \in Users \ {a} :
                  /\ StateOf(b)' = StateOf(b)
                  /\ TrackedMenus(b) \subseteq TrackedMenus(b)']_vars

\* C26: when the cart of a live session is empty at the moment the last field
\* is accepted, or at the moment confirm is pressed for a form, the form is
\* destroyed, no order id is minted and no order row is appended.
C26_EmptyCartEndsCheckout ==
    [][\A u \in Users :
          ( /\ DOMAIN CartOf(u) = {}
            /\ \/ PassesValidation(u) /\ user_states[u].step = NumSteps - 1
               \/ /\ Handled("confirm", u)
                  /\ HasForm(u)
                  /\ pc[u].at = "idle" ) =>
              /\ u \notin DOMAIN user_states'
              /\ lastEvent'.outcome \in {"empty_cart", "expired"}
              /\ pc'[u].at = "idle"
              /\ minted' = minted
              /\ order_counters' = order_counters
              /\ orders' = orders]_vars

C26_Witness ==
    /\ lastEvent.kind = "confirm"
    /\ lastEvent.outcome = "empty_cart"
    /\ ~HasForm(lastEvent.user)
    /\ lastEvent.user \notin DOMAIN user_carts
    /\ minted = <<>>
    /\ orders = <<>>

\* The idle time of user u is known and exceeds one hour.
IdleTooLong(u) == u \in DOMAIN last_activity /\ now - last_activity[u] > 3600

HasSomething(u) == DOMAIN CartOf(u) # {} \/ HasForm(u)

\* C28: an event that arrives at an idle time of at most 3600 s, or for a
\* user without a last-activity record, or for a user with neither a
\* non-empty cart nor a form, is not treated as expired: the session is not
\* reset for expiry and the action is applied (a catalog add raises the
\* quantity, a clear cart empties the cart, a valid text advances the form).
C28_NoEarlyExpiry ==
    [][\A u \in Users :
          ( /\ lastEvent'.user = u
            /\ lastEvent'.kind \in MutatingKinds
            /\ pc[u].at = "idle"
            /\ ~(IdleTooLong(u) /\ HasSomething(u)) ) =>
              /\ lastEvent'.outcome # "expired"
              /\ (lastEvent'.kind = "add" /\ lastEvent'.item \in DOMAIN catalog) =>
                    /\ u \in DOMAIN user_carts'
                    /\ user_carts'[u][lastEvent'.item] = Get(CartOf(u), lastEvent'.item, 0) + 1
              /\ lastEvent'.kind = "clear_cart" =>
                    u \in DOMAIN user_carts' /\ DOMAIN user_carts'[u] = {}
              /\ ( /\ lastEvent'.kind = "text"
                    /\ HasForm(u)
                    /\ user_states[u].step + 1 < NumSteps
                    /\ validate_field(FieldAt(user_states[u].step), lastEvent'.text) ) =>
                    /\ u \in DOMAIN user_states'
                    /\ user_states'[u].step = user_states[u].step + 1]_vars

C28_Witness ==
    /\ lastEvent.kind = "text"
    /\ lastEvent.outcome = "stored"
    /\ now = 3600
    /\ last_activity = [u \in {"u1"} |-> 3600]
    /\ user_states["u1"].step = 2
    /\ user_carts["u1"] = [p \in {"Sticker A"} |-> 4]

RowsOf(u) == {i \in DOMAIN orders : orders[i].username = u}

\* C29: one checkout form yields at most one order.  The shopper begins no
\* checkout and adds nothing once an order row exists, so the order log never
\* holds a second row of that shopper.
C29_OneOrderPerForm == Cardinality(RowsOf(Shopper)) <= 1

RowsOfDay(day) == {i \in DOMAIN orders : orders[i].order_id[1] = day}

\* C30: with a working order log, every minted order id is carried by exactly
\* one appended row: the counter of the day equals the number of rows appended
\* that day, and the sequence numbers of these rows are 1..n.
C30_CounterMatchesRows ==
    LET n == Get(order_counters, Today, 0)
    IN  /\ Cardinality(RowsOfDay(Today)) = n
        /\ {orders[i].order_id[2] : i \in RowsOfDay(Today)} = 1..n

\* The outcomes of a confirm that ran to its end.
CompletedOutcomes == {"saved", "pay_link", "payment_failed"}

SessionReset(u) ==
    /\ lastEvent'.user = u
    /\ \/ lastEvent'.outcome = "expired"
       \/ lastEvent'.kind = "restart" /\ lastEvent'.outcome = "ok"
       \/ lastEvent'.kind = "confirm" /\ lastEvent'.outcome \in CompletedOutcomes

\* C31: after every step a user who has a non-empty cart or a form also has
\* a last-activity record; and a step that is an expiry, a restart or a
\* completed confirm of a user leaves that user without cart, form and
\* last-activity record.
C31_SessionHasActivityRecord ==
    [][\A u \in Users :
          /\ HasSomething(u)' => u \in DOMAIN last_activity'
          /\ SessionReset(u) =>
                /\ u \notin DOMAIN user_carts'
                /\ u \notin DOMAIN user_states'
                /\ u \notin DOMAIN last_activity']_vars

C31_Witness ==
    /\ lastEvent.kind = "confirm"
    /\ lastEvent.outcome \in CompletedOutcomes
    /\ lastEvent.append = "ok"
    /\ Len(orders) = 1
    /\ lastEvent.user \notin DOMAIN user_carts
    /\ lastEvent.user \notin DOMAIN user_states
    /\ lastEvent.user \notin DOMAIN last_activity

\* C32: for one and the same cart, the total of the cart text, the total on
\* the order review and the total persisted with the order row are equal:
\* when the review is shown and when the row is appended, the amount equals
\* what the cart text shows for the cart of that moment.
C32_SameTotalEverywhere ==
    [][\A u \in Users :
          /\ (Handled("text", u) /\ lastEvent'.outcome = "review") =>
                lastEvent'.amounts[3] = build_cart_text(user_carts[u]).total
          /\ (Handled("confirm", u) /\ OrderAppended) =>
                /\ orders'[Len(orders')].total = review_totals(user_carts[u])[3]
                /\ orders'[Len(orders')].total = build_cart_text(user_carts[u]).total]_vars

\* The handlers that prompt for a field, and their outcomes after the prompt.
PromptingKinds == {"begin_checkout", "text", "back", "edit_address"}

PromptOutcomes == {"ok", "stored", "invalid", "raised"}

\* C33: a handler run that prompts for a field, in a private chat or in a
\* group chat, does not raise and leaves the handle of the prompt message in
\* the form of the user; a begin checkout sends its summary and one prompt.
C33_PromptHandlePerUser ==
    [][\A u \in Users :
          ( /\ lastEvent'.user = u
            /\ lastEvent'.kind \in PromptingKinds
            /\ lastEvent'.outcome \in PromptOutcomes ) =>
              /\ lastEvent'.outcome # "raised"
              /\ u \in DOMAIN user_states'
              /\ user_states'[u].msg_id # 0
              /\ lastEvent'.kind = "begin_checkout" => lastEvent'.sent = 2]_vars

====
